---- MODULE Spec2Model ----
(***************************************************************************)
(* The completion dispatch engine of IPython/core/completer2.py:           *)
(* CompletionManager (registry, register, _completer_exclusive_changed,    *)
(* complete) and the part of BaseCompleter it talks to (exclusive,         *)
(* _exclusive_changed, _set_completion_manager, match); the event of a      *)
(* request (CompletionEvent), the CompletionSplitter and the greedy toggle, *)
(* tokenize of IPython/utils/tokens.py and last_open_identifier of         *)
(* IPython/core/completers/kwargs.py.                                      *)
(***************************************************************************)
EXTENDS Integers, Sequences, FiniteSets, TLC

\* Bounds of the model: the registry holds at most MaxLen entries, one
\* register call takes at most MaxArgs arguments.
MaxLen == 4
MaxArgs == 2

\* A block of text has at most MaxText characters (the texts of the
\* examples apart), and within one request event.tokens is read at most
\* MaxReads times.
MaxText == 3
MaxReads == 3

\* A source text handed to tokenize has at most MaxSrc characters, a token
\* list handed to last_open_identifier at most MaxToks tokens (the lists of
\* the examples apart).
MaxSrc == 6
MaxToks == 5

(***************************************************************************)
(* Values                                                                  *)
(***************************************************************************)

\* The BaseCompleter instances that exist.
Completers == {"A", "B", "C"}

\* Python strings are sequences of character codes; the candidates below
\* stand for "a", "ab", "b" and "c".
StrA == <<1>>
StrAB == <<1, 2>>
StrB == <<2>>
StrC == <<3>>

\* The kinds (keys of a completions dict).
Kinds == {"files", "kwargs"}

\* A dict with no key.
EmptyDict == [k \in {} |-> <<>>]

\* What one call of completer.match(event) does: it raises, returns None,
\* or returns a dict kind -> collection of strings.
Raises == [tag |-> "raise", val |-> EmptyDict]
ReturnsNone == [tag |-> "none", val |-> EmptyDict]
ReturnsDict(d) == [tag |-> "dict", val |-> d]

OnlyEmpty == [k \in {"files"} |-> <<>>]
FilesBA == [k \in {"files"} |-> <<StrB, StrA>>]
FilesCBKw == [k \in Kinds |-> IF k = "files" THEN <<StrC, StrB>> ELSE <<StrAB>>]

Outcomes ==
    {Raises, ReturnsNone, ReturnsDict(EmptyDict), ReturnsDict(OnlyEmpty),
     ReturnsDict(FilesBA), ReturnsDict(FilesCBKw)}

\* The local variable these_matches before its first assignment.
Unbound == [tag |-> "unbound", val |-> EmptyDict]

\* The objects a caller can hand to register: a BaseCompleter instance, a
\* class whose default constructor gives the (new) BaseCompleter instance
\* inst, an object that is no BaseCompleter, a class of such objects.
InstanceOf(c) == [kind |-> "instance", inst |-> c]
ClassOf(c) == [kind |-> "class", inst |-> c]
OtherObject == [kind |-> "object", inst |-> "none"]
OtherClass == [kind |-> "otherclass", inst |-> "none"]

Objects ==
    {InstanceOf(c) : c \in Completers} \cup {ClassOf(c) : c \in Completers}
        \cup {OtherObject, OtherClass}

Range(s) == {s[i] : i \in 1..Len(s)}

ArgLists == UNION {[1..n -> Objects] : n \in 1..MaxArgs}

(***************************************************************************)
(* list and str of the Python runtime                                      *)
(***************************************************************************)

\* A registration that puts x at the end of the list whatever its flag.
InsertAtEnd(s, x) == s \o <<x>>

\* list.insert(0, x)
InsertFront(s, x) == <<x>> \o s

\* A removal that drops every occurrence of x.
ListRemoveAll(s, x) == SelectSeq(s, LAMBDA y : y # x)

\* list.remove(x): drops the first occurrence of x (x is in s).
ListRemove(s, x) ==
    LET i == CHOOSE j \in 1..Len(s) : s[j] = x /\ \A k \in 1..(j - 1) : s[k] # x
    IN  SubSeq(s, 1, i - 1) \o SubSeq(s, i + 1, Len(s))

\* s < t for two str: the first differing character decides, a proper
\* prefix is smaller.
StrLess(s, t) ==
    \E i \in 1..(Len(t)) :
        /\ \A j \in 1..(i - 1) : j <= Len(s) /\ s[j] = t[j]
        /\ (i > Len(s) \/ (i <= Len(s) /\ s[i] < t[i]))

RECURSIVE SortedList(_)
\* A sorted that hands back the list in the order it came.
UnsortedList(v) == v

\* sorted(v) for a list v of str (stable insertion into the sorted prefix).
SortedList(v) ==
    IF v = <<>> THEN <<>>
    ELSE LET head == SortedList(SubSeq(v, 1, Len(v) - 1))
             x == v[Len(v)]
             n == Cardinality({i \in 1..Len(head) : ~StrLess(x, head[i])})
         IN  SubSeq(head, 1, n) \o <<x>> \o SubSeq(head, n + 1, Len(head))

\* Some iteration order of a set.
RECURSIVE SetToList(_)
SetToList(S) ==
    IF S = {} THEN <<>>
    ELSE LET x == CHOOSE y \in S : TRUE
         IN  <<x>> \o SetToList(S \ {x})

\* sorted(v) for a set v of str.
SortedSet(S) == SortedList(SetToList(S))

(***************************************************************************)
(* State                                                                   *)
(***************************************************************************)

VARIABLES
    registry,   \* CompletionManager.registry: a list of completers
    exclusive,  \* BaseCompleter.exclusive of every completer
    manager,    \* the completers whose __completion_manager is the manager
    regOrder,   \* history: the registered completers, latest registration last
    last,       \* the latest call on the manager: its arguments and outcome
    greedy,     \* CompletionManager.greedy
    splitter,   \* CompletionManager.splitter: its _delims and its _delim_re
    request,    \* the complete call in progress: its arguments and its event
    applied,    \* the call of a module-level function in progress
    str_key,    \* BaseCompleter.str_key of every completer
    filter_results, \* BaseCompleter.filter_results of every completer
    completions,    \* RLCompletionManager._completions
    dumb_terminal   \* RLCompletionManager.dumb_terminal

vars ==
    <<registry, exclusive, manager, regOrder, last, greedy, splitter, request,
      applied, str_key, filter_results, completions, dumb_terminal>>

\* The state of the registry, and the state a request is made of.
dispatchVars == <<registry, exclusive, manager, regOrder, last>>
eventVars == <<greedy, splitter, request>>
libVars == <<applied>>
traitVars == <<str_key, filter_results>>
readlineVars == <<completions, dumb_terminal>>

\* The completer instance register works on for the argument m: the
\* instance itself, or the instance the class is instantiated to.
Instantiate(m) ==
    IF m.kind \in {"class", "otherclass"}
    THEN [kind |-> IF m.kind = "class" THEN "instance" ELSE "object", inst |-> m.inst]
    ELSE m

IsBaseCompleter(m) == m.kind = "instance"

\* regOrder after one more registration of c.
Registered(order, c) == SelectSeq(order, LAMBDA x : x # c) \o <<c>>

RECURSIVE register(_, _, _, _, _, _)
\* A register that passes over an argument of the wrong type in silence.
registerSkipsNonCompleter(reg, mgr, order, excl, objs, i) ==
    IF i > Len(objs)
    THEN [registry |-> reg, manager |-> mgr, regOrder |-> order, raised |-> "none"]
    ELSE LET m == Instantiate(objs[i])
         IN  IF IsBaseCompleter(m)
             THEN register(IF excl[m.inst] THEN InsertFront(reg, m.inst)
                                            ELSE Append(reg, m.inst),
                           mgr \cup {m.inst}, Registered(order, m.inst),
                           excl, objs, i + 1)
             ELSE register(reg, mgr, order, excl, objs, i + 1)

\* CompletionManager.register(*objs) from position i of objs on. The result
\* holds the registry, the back references, the history and whether
\* TypeError was raised.
register(reg, mgr, order, excl, objs, i) ==
    IF i > Len(objs)
    THEN [registry |-> reg, manager |-> mgr, regOrder |-> order, raised |-> "none"]
    ELSE LET m == Instantiate(objs[i])
         IN  IF IsBaseCompleter(m)
             THEN register(IF excl[m.inst] THEN InsertFront(reg, m.inst)
                                            ELSE Append(reg, m.inst),
                           mgr \cup {m.inst}, Registered(order, m.inst),
                           excl, objs, i + 1)
             ELSE [registry |-> reg, manager |-> mgr, regOrder |-> order,
                   raised |-> "TypeError"]

\* A notification that registers a completer it does not find instead of
\* raising.
completerExclusiveChangedAdopts(reg, mgr, order, excl, completer) ==
    register(IF completer \in Range(reg) THEN ListRemove(reg, completer) ELSE reg,
             mgr, order, excl, <<InstanceOf(completer)>>, 1)

\* CompletionManager._completer_exclusive_changed(completer)
completer_exclusive_changed(reg, mgr, order, excl, completer) ==
    IF completer \notin Range(reg)
    THEN [registry |-> reg, manager |-> mgr, regOrder |-> order,
          raised |-> "ValueError"]
    ELSE register(ListRemove(reg, completer), mgr, order, excl,
                  <<InstanceOf(completer)>>, 1)

\* BaseCompleter._exclusive_changed(name, old, new), called by the trait
\* after the flag of completer was set to new; excl holds the new flag.
exclusive_changed(reg, mgr, order, excl, completer, old, new) ==
    IF new # old /\ completer \in mgr
    THEN completer_exclusive_changed(reg, mgr, order, excl, completer)
    ELSE [registry |-> reg, manager |-> mgr, regOrder |-> order, raised |-> "none"]

\* for kind, v in these_matches.iteritems():
\*     if len(v) > 0: collected_matches[kind].update(v)
Merge(collected, these) ==
    LET new == {k \in DOMAIN these : Len(these[k]) > 0}
    IN  [k \in DOMAIN collected \cup new |->
            (IF k \in DOMAIN collected THEN collected[k] ELSE {})
                \cup (IF k \in new THEN Range(these[k]) ELSE {})]

\* An exclusivity test that wants more than one kind in the result.
ExclusiveHitManyKinds(excl, completer, these) ==
    excl[completer] /\ these.tag # "none" /\ Cardinality(DOMAIN these.val) > 1

\* completer.exclusive and (these_matches is not None) and
\*     (len(these_matches) > 0)
ExclusiveHit(excl, completer, these) ==
    excl[completer] /\ these.tag # "none" /\ Cardinality(DOMAIN these.val) > 0

\* The loop of CompletionManager.complete from index i of the registry on,
\* and its return statement. these is the local these_matches, collected
\* the defaultdict collected_matches, invoked the completers whose match
\* was called so far. An exception of match is caught (and shown when debug
\* is set), and these_matches keeps the value it had. Reading these_matches
\* before its first assignment raises UnboundLocalError.
RECURSIVE completeLoop(_, _, _, _, _, _, _)
completeLoop(reg, excl, beh, i, these, collected, invoked) ==
    IF i > Len(reg)
    THEN [raised |-> "none",
          value |-> [k \in DOMAIN collected |-> SortedSet(collected[k])],
          invoked |-> invoked]
    ELSE LET completer == reg[i]
             out == beh[completer]
             these1 == IF out.tag = "raise" THEN these ELSE out
             invoked1 == Append(invoked, completer)
         IN  IF these1.tag = "unbound"
             THEN [raised |-> "UnboundLocalError", value |-> EmptyDict,
                   invoked |-> invoked1]
             ELSE IF ExclusiveHit(excl, completer, these1)
             THEN [raised |-> "none",
                   value |-> [k \in DOMAIN these1.val |-> SortedList(these1.val[k])],
                   invoked |-> invoked1]
             ELSE completeLoop(reg, excl, beh, i + 1, these1,
                               IF these1.tag # "none"
                               THEN Merge(collected, these1.val) ELSE collected,
                               invoked1)

\* CompletionManager.complete: beh gives what match of each completer does
\* on the event of this call.
complete(reg, excl, beh) ==
    completeLoop(reg, excl, beh, 1, Unbound, [k \in {} |-> {}], <<>>)

(***************************************************************************)
(* Text, CompletionSplitter, CompletionEvent and tokenize                  *)
(***************************************************************************)

\* The characters the blocks are written in: "a", " " and "(".
Alphabet == {97, 32, 40}

\* The texts "cd ", "cd", "a.b c" and "a(a".
TextCdSpace == <<99, 100, 32>>
TextCd == <<99, 100>>
TextADotBSpaceC == <<97, 46, 98, 32, 99>>
TextAParenA == <<97, 40, 97>>

\* The block of two lines "  a\n a": the second line goes back to a column
\* no line before it started at.
TextBadUnindent == <<32, 32, 97, 10, 32, 97>>

\* The blocks complete is called with: one line of text each.
Texts ==
    UNION {[1..n -> Alphabet] : n \in 0..MaxText}
        \cup {TextCdSpace, TextCd, TextADotBSpaceC, TextBadUnindent}

\* The argument cursor_position: None (the default), or an int.
NoCursor == [given |-> FALSE, pos |-> 0]
CursorAt(n) == [given |-> TRUE, pos |-> n]

Cursors == {NoCursor} \cup {CursorAt(n) : n \in (0 - MaxText)..(MaxText + 1)}

Min(a, b) == IF a <= b THEN a ELSE b
Max(a, b) == IF a >= b THEN a ELSE b

\* block[:cursor_position]
Slice(block, cursor) ==
    IF ~cursor.given THEN block
    ELSE IF cursor.pos >= 0
         THEN SubSeq(block, 1, Min(cursor.pos, Len(block)))
         ELSE SubSeq(block, 1, Max(Len(block) + cursor.pos, 0))

\* DELIMS = ' \t\n`!@#$^&*()=+[{]}\\|;:\'",<>?' and GREEDY_DELIMS = ' =\r\n'
DELIMS ==
    {32, 9, 10, 96, 33, 64, 35, 36, 94, 38, 42, 40, 41, 61, 43, 91, 123, 93,
     125, 92, 124, 59, 58, 39, 34, 44, 60, 62, 63}
GREEDY_DELIMS == {32, 61, 13, 10}

\* The characters '\\' + c stands for inside the brackets of a regular
\* expression: \a is BEL, \b is backspace, \d is a digit, and a character
\* that is no letter or digit stands for itself.
EscapedChar(c) ==
    CASE c = 97 -> {7}
      [] c = 98 -> {8}
      [] c = 100 -> 48..57
      [] OTHER -> {c}

\* The characters re.compile('[' + ''.join('\\' + c for c in delims) + ']')
\* matches.
DelimRe(delims) == UNION {EscapedChar(c) : c \in delims}

\* A setter that keeps the regular expression of the standard delimiters.
delimsSetterKeepsRe(delims) == [delims |-> delims, re |-> DelimRe(DELIMS)]

\* The setter of CompletionSplitter.delims: the splitter it leaves.
delims_setter(delims) == [delims |-> delims, re |-> DelimRe(delims)]

\* CompletionSplitter()
CompletionSplitter == delims_setter(DELIMS)

\* A toggle that takes the flag the wrong way round.
greedyChangedInverted(new) ==
    IF new THEN delims_setter(DELIMS) ELSE delims_setter(GREEDY_DELIMS)

\* CompletionManager._greedy_changed(name, old, new): the splitter it leaves.
greedy_changed(new) ==
    IF new THEN delims_setter(GREEDY_DELIMS) ELSE delims_setter(DELIMS)

\* re.split(block) for a pattern that matches one character of the set re:
\* the pieces between the matches, the empty ones too.
RECURSIVE ReSplit(_, _)
ReSplit(re, block) ==
    IF \A i \in 1..Len(block) : block[i] \notin re
    THEN <<block>>
    ELSE LET i == CHOOSE j \in 1..Len(block) :
                      block[j] \in re /\ \A k \in 1..(j - 1) : block[k] \notin re
         IN  <<SubSeq(block, 1, i - 1)>> \o ReSplit(re, SubSeq(block, i + 1, Len(block)))

\* A split that returns every piece, the empty ones too.
splitKeepsEmpties(sp, block) == ReSplit(sp.re, block)

\* A split that never adds the empty string.
splitNoTrailing(sp, block) ==
    SelectSeq(ReSplit(sp.re, block), LAMBDA e : Len(e) > 0)

\* A split that looks at the first piece, not the last, for the empty string.
splitTestsFirst(sp, block) ==
    LET splits == ReSplit(sp.re, block)
        non_redundant == SelectSeq(splits, LAMBDA e : Len(e) > 0)
    IN  IF splits[1] = <<>> THEN Append(non_redundant, <<>>) ELSE non_redundant

\* CompletionSplitter.split(block) of the splitter sp
split(sp, block) ==
    LET splits == ReSplit(sp.re, block)
        non_redundant == SelectSeq(splits, LAMBDA e : Len(e) > 0)
    IN  IF splits[Len(splits)] = <<>> THEN Append(non_redundant, <<>>) ELSE non_redundant

\* The characters of a name, and the brackets the tokenizer counts.
NameChars == (97..122) \cup (65..90) \cup (48..57) \cup {95}
Openers == {40, 91, 123}
Closers == {41, 93, 125}

\* The tokens of the line src from index i on: blanks are skipped, a
\* maximal run of name characters is one token, any other character is a
\* token of its own.
RECURSIVE Lex(_, _)
Lex(src, i) ==
    IF i > Len(src) THEN <<>>
    ELSE IF src[i] = 32 THEN Lex(src, i + 1)
    ELSE IF src[i] \in NameChars
    THEN LET j == CHOOSE e \in i..Len(src) :
                      /\ \A k \in i..e : src[k] \in NameChars
                      /\ (e = Len(src) \/ src[e + 1] \notin NameChars)
         IN  <<SubSeq(src, i, j)>> \o Lex(src, j + 1)
    ELSE <<SubSeq(src, i, i)>> \o Lex(src, i + 1)

\* The lines readline gives for src: each ends with its "\n", the last
\* one may have none.
RECURSIVE Lines(_)
Lines(src) ==
    IF src = <<>> THEN <<>>
    ELSE IF \A i \in 1..Len(src) : src[i] # 10 THEN <<src>>
    ELSE LET i == CHOOSE j \in 1..Len(src) :
                      src[j] = 10 /\ \A k \in 1..(j - 1) : src[k] # 10
         IN  <<SubSeq(src, 1, i)>> \o Lines(SubSeq(src, i + 1, Len(src)))

\* n DEDENT tokens: their text is the empty string.
Dedents(n) == [k \in 1..n |-> <<>>]

\* What the brackets of a line add to parenlev.
BracketLevel(line) ==
    Cardinality({i \in 1..Len(line) : line[i] \in Openers})
        - Cardinality({i \in 1..Len(line) : line[i] \in Closers})

\* The number of blanks a line starts with.
LeadingBlanks(line) ==
    Cardinality({i \in 1..Len(line) : \A k \in 1..i : line[k] = 32})

\* The stdlib generate_tokens from line i on, as run() of tokenize reads
\* it: the texts of the tokens before ENDMARKER, and the exception that
\* ended it. indents is the stack of indentation columns, parenlev the
\* bracket depth. Outside brackets a line of blanks without "\n" ends the
\* input, a blank line is one NL token, a deeper line starts with an INDENT
\* token (its blanks), a shallower one with one DEDENT token per column
\* left, and a column that is on the stack nowhere raises IndentationError.
\* At the end of input the open columns are closed by DEDENT tokens, or
\* inside brackets TokenError is raised.
RECURSIVE generate_tokens(_, _, _, _, _)
generate_tokens(lines, i, indents, parenlev, toks) ==
    IF i > Len(lines)
    THEN IF parenlev = 0
         THEN [raised |-> "none", value |-> toks \o Dedents(Len(indents) - 1)]
         ELSE [raised |-> "TokenError", value |-> toks]
    ELSE LET line == lines[i]
             column == LeadingBlanks(line)
             level == parenlev + BracketLevel(line)
         IN  IF parenlev # 0
             THEN generate_tokens(lines, i + 1, indents, level, toks \o Lex(line, 1))
             ELSE IF column = Len(line)
             THEN [raised |-> "none", value |-> toks \o Dedents(Len(indents) - 1)]
             ELSE IF line[column + 1] = 10
             THEN generate_tokens(lines, i + 1, indents, parenlev,
                                  Append(toks, SubSeq(line, column + 1, Len(line))))
             ELSE IF column > indents[Len(indents)]
             THEN generate_tokens(lines, i + 1, Append(indents, column), level,
                                  toks \o <<SubSeq(line, 1, column)>>
                                       \o Lex(line, column + 1))
             ELSE IF \A k \in 1..Len(indents) : indents[k] # column
             THEN [raised |-> "IndentationError", value |-> toks]
             ELSE LET keep == CHOOSE k \in 1..Len(indents) : indents[k] = column
                  IN  generate_tokens(lines, i + 1, SubSeq(indents, 1, keep), level,
                                      toks \o Dedents(Len(indents) - keep)
                                           \o Lex(line, column + 1))

\* tokenize(src): the list of token texts it returns, or the exception it
\* raises. TokenError is caught in run() and the tokens yielded before it
\* are the result; any other exception of the tokenizer leaves tokenize.
tokenize(src) ==
    LET r == generate_tokens(Lines(src), 1, <<0>>, 0, <<>>)
    IN  IF r.raised = "TokenError"
        THEN [raised |-> "none", value |-> r.value]
        ELSE IF r.raised = "none" THEN r
        ELSE [raised |-> r.raised, value |-> <<>>]

\* The attribute _tokens of an event: None, or a list of tokens.
NoTokens == [isNone |-> TRUE, val |-> <<>>]
TokenList(toks) == [isNone |-> FALSE, val |-> toks]

\* CompletionEvent(block, manager, splitter)
CompletionEvent(block, sp) ==
    LET fragments == split(sp, block)
    IN  [block |-> block, split |-> fragments, text |-> fragments[Len(fragments)],
         tokens |-> NoTokens]

\* The property CompletionEvent.tokens: the event after the read, how
\* often tokenize ran for it, and the exception that left the property.
tokens(event) ==
    IF event.tokens.isNone
    THEN LET r == tokenize(event.block)
         IN  IF r.raised = "none"
             THEN [event |-> [event EXCEPT !.tokens = TokenList(r.value)],
                   ran |-> 1, raised |-> "none"]
             ELSE [event |-> event, ran |-> 1, raised |-> r.raised]
    ELSE [event |-> event, ran |-> 0, raised |-> "none"]

\* The tokens "(", ")", "." and "+", and the names "a", "b", "x", "foo",
\* "bar", "pa" and the number "1".
TokOpen == <<40>>
TokClose == <<41>>
TokDot == <<46>>
TokPlus == <<43>>
TokComma == <<44>>
TokA == <<97>>
TokB == <<98>>
TokX == <<120>>
TokOne == <<49>>
TokFoo == <<102, 111, 111>>
TokBar == <<98, 97, 114>>
TokPa == <<112, 97>>

\* re.compile(r'\w+$').match(token): one or more word characters up to the
\* end of the token, or up to a newline that ends it.
isId(token) ==
    LET body == IF Len(token) > 0 /\ token[Len(token)] = 10
                THEN SubSeq(token, 1, Len(token) - 1) ELSE token
    IN  Len(body) > 0 /\ \A i \in 1..Len(body) : body[i] \in NameChars

RECURSIVE lastUnclosed(_, _, _)
\* A scan that stops at the first "(" it meets.
firstParenBack(toks, i, openPar) ==
    IF i = 0 THEN 0
    ELSE IF toks[i] = TokOpen THEN i
    ELSE lastUnclosed(toks, i - 1, openPar)

\* The first loop of last_open_identifier, about to read tokens[i] on its
\* way from the end to the front with the counter openPar: the index of
\* the "(" it breaks at, or 0 when the tokens run out.
lastUnclosed(toks, i, openPar) ==
    IF i = 0 THEN 0
    ELSE IF toks[i] = TokClose THEN lastUnclosed(toks, i - 1, openPar - 1)
    ELSE IF toks[i] = TokOpen
    THEN IF openPar + 1 > 0 THEN i ELSE lastUnclosed(toks, i - 1, openPar + 1)
    ELSE lastUnclosed(toks, i - 1, openPar)

RECURSIVE dottedName(_, _, _)
\* A loop that takes names whatever stands between them.
dottedNameAnySeparator(toks, i, identifiers) ==
    IF i < 1 THEN identifiers
    ELSE IF ~isId(toks[i]) THEN identifiers
    ELSE IF i - 1 < 1 THEN Append(identifiers, toks[i])
    ELSE dottedName(toks, i - 2, Append(identifiers, toks[i]))

\* The second loop of last_open_identifier, about to read tokens[i]: the
\* list identifiers when the loop is left.
dottedName(toks, i, identifiers) ==
    IF i < 1 THEN identifiers
    ELSE IF ~isId(toks[i]) THEN identifiers
    ELSE IF i - 1 < 1 THEN Append(identifiers, toks[i])
    ELSE IF toks[i - 1] # TokDot THEN Append(identifiers, toks[i])
    ELSE dottedName(toks, i - 2, Append(identifiers, toks[i]))

\* s[::-1]
Reversed(s) == [k \in 1..Len(s) |-> s[Len(s) + 1 - k]]

\* last_open_identifier(tokens): the pair it returns, or ValueError.
last_open_identifier(toks) ==
    LET p == lastUnclosed(toks, Len(toks), 0)
    IN  IF p = 0
        THEN [raised |-> "ValueError", identifiers |-> <<>>,
              tokens_after_identifier |-> <<>>]
        ELSE [raised |-> "none",
              identifiers |-> Reversed(dottedName(toks, p - 1, <<>>)),
              tokens_after_identifier |-> SubSeq(toks, p, Len(toks))]

(***************************************************************************)
(* Operations                                                              *)
(***************************************************************************)

\* No call is in progress and no result is waiting for the caller.
NoCall == [op |-> "none"]

Idle == last.op = "none"

\* No complete call is in progress.
NoRequest == [active |-> FALSE]

\* _completions of a new RLCompletionManager: None. Later it is a list.
NoCompletions == [isNone |-> TRUE, val |-> <<>>]
CompletionList(v) == [isNone |-> FALSE, val |-> v]

\* No module-level function is being called.
NoApplication == [fn |-> "none"]

Init ==
    /\ registry = <<>>
    /\ exclusive \in [Completers -> BOOLEAN]
    /\ manager = {}
    /\ regOrder = <<>>
    /\ last = NoCall
    /\ greedy = FALSE
    /\ splitter = CompletionSplitter
    /\ request = NoRequest
    /\ applied = NoApplication
    /\ str_key = [c \in Completers |-> <<>>]
    /\ filter_results = [c \in Completers |-> TRUE]
    /\ completions = NoCompletions
    /\ dumb_terminal = FALSE

\* A class gives a new instance: one that is registered nowhere and is no
\* other argument of the call.
FreshInstances(objs) ==
    \A i \in 1..Len(objs) :
        objs[i].kind = "class" =>
            /\ objs[i].inst \notin Range(registry)
            /\ \A j \in 1..Len(objs) : j # i => objs[j].inst # objs[i].inst

\* manager.register(*objs)
Register(objs) ==
    /\ Idle
    /\ Len(registry) + Len(objs) <= MaxLen
    /\ FreshInstances(objs)
    /\ LET r == register(registry, manager, regOrder, exclusive, objs, 1)
       IN  /\ registry' = r.registry
           /\ manager' = r.manager
           /\ regOrder' = r.regOrder
           /\ last' = [op |-> "register", objs |-> objs, registry |-> registry,
                       raised |-> r.raised]
    /\ UNCHANGED exclusive
    /\ UNCHANGED eventVars
    /\ UNCHANGED libVars
    /\ UNCHANGED traitVars
    /\ UNCHANGED readlineVars

\* completer.exclusive = new
SetExclusive(completer, new) ==
    LET excl == [exclusive EXCEPT ![completer] = new]
        r == exclusive_changed(registry, manager, regOrder, excl, completer,
                               exclusive[completer], new)
    IN  /\ Idle
        /\ exclusive' = excl
        /\ registry' = r.registry
        /\ manager' = r.manager
        /\ regOrder' = r.regOrder
        /\ last' = [op |-> "exclusive", completer |-> completer,
                    registry |-> registry, raised |-> r.raised]
        /\ UNCHANGED eventVars
        /\ UNCHANGED libVars
        /\ UNCHANGED traitVars
        /\ UNCHANGED readlineVars

\* manager._completer_exclusive_changed(completer), called directly
NotifyExclusiveChanged(completer) ==
    LET r == completer_exclusive_changed(registry, manager, regOrder, exclusive,
                                         completer)
    IN  /\ Idle
        /\ registry' = r.registry
        /\ manager' = r.manager
        /\ regOrder' = r.regOrder
        /\ last' = [op |-> "notify", completer |-> completer,
                    registry |-> registry, raised |-> r.raised]
        /\ UNCHANGED exclusive
        /\ UNCHANGED eventVars
        /\ UNCHANGED libVars
        /\ UNCHANGED traitVars
        /\ UNCHANGED readlineVars

\* A complete that unregisters the completers whose match raised.
CompleteDropsRaising(beh) ==
    LET r == complete(registry, exclusive, beh)
    IN  /\ Idle
        /\ last' = [op |-> "complete", beh |-> beh, registry |-> registry,
                    raised |-> r.raised, value |-> r.value, invoked |-> r.invoked]
        /\ registry' = SelectSeq(registry, LAMBDA c : beh[c].tag # "raise")
        /\ UNCHANGED <<exclusive, manager, regOrder>>
        /\ UNCHANGED eventVars
        /\ UNCHANGED libVars
        /\ UNCHANGED traitVars
        /\ UNCHANGED readlineVars

\* manager.complete(block, cursor_position)
Complete(beh) ==
    LET r == complete(registry, exclusive, beh)
    IN  /\ Idle
        /\ last' = [op |-> "complete", beh |-> beh, registry |-> registry,
                    raised |-> r.raised, value |-> r.value, invoked |-> r.invoked]
        /\ UNCHANGED <<registry, exclusive, manager, regOrder>>
        /\ UNCHANGED eventVars
        /\ UNCHANGED libVars
        /\ UNCHANGED traitVars
        /\ UNCHANGED readlineVars

\* The call returns (or its exception propagates) to the caller, who makes
\* the next call; the manager keeps nothing of the call but its registry.
Return ==
    /\ ~Idle
    /\ last' = NoCall
    /\ UNCHANGED <<registry, exclusive, manager, regOrder>>
    /\ UNCHANGED eventVars
    /\ UNCHANGED libVars
    /\ UNCHANGED traitVars
    /\ UNCHANGED readlineVars

Next ==
    \/ \E objs \in ArgLists : Register(objs)
    \/ \E c \in Completers, new \in BOOLEAN : SetExclusive(c, new)
    \/ \E c \in Completers : NotifyExclusiveChanged(c)
    \/ \E beh \in [Completers -> Outcomes] : Complete(beh)
    \/ Return

Spec == Init /\ [][Next]_vars

(***************************************************************************)
(* The event of a request                                                  *)
(***************************************************************************)

\* manager.greedy = new. The trait calls _greedy_changed when the value
\* changes.
SetGreedy(new) ==
    /\ ~request.active
    /\ greedy' = new
    /\ splitter' = IF new # greedy THEN greedy_changed(new) ELSE splitter
    /\ UNCHANGED request
    /\ UNCHANGED dispatchVars
    /\ UNCHANGED libVars
    /\ UNCHANGED traitVars
    /\ UNCHANGED readlineVars

\* manager.complete(block, cursor_position) up to the loop over the
\* registry: the event of the request is made. runs counts the calls of
\* tokenize in this request, reads and readers the reads of event.tokens
\* and the completers that read, readRaised the exception of the latest
\* read (it leaves match, and complete catches it).
BeginComplete(block, cursor) ==
    /\ ~request.active
    /\ request' = [active |-> TRUE, block |-> block, cursor |-> cursor,
                   raised |-> "none",
                   event |-> CompletionEvent(Slice(block, cursor), splitter),
                   runs |-> 0, reads |-> 0, readers |-> {},
                   readRaised |-> "none"]
    /\ UNCHANGED <<greedy, splitter>>
    /\ UNCHANGED dispatchVars
    /\ UNCHANGED libVars
    /\ UNCHANGED traitVars
    /\ UNCHANGED readlineVars

\* match of the completer c, invoked by complete, reads event.tokens.
ReadTokens(c) ==
    /\ request.active
    /\ request.reads < MaxReads
    /\ LET r == tokens(request.event)
       IN  request' = [request EXCEPT !.event = r.event,
                                      !.runs = @ + r.ran,
                                      !.readRaised = r.raised,
                                      !.reads = @ + 1,
                                      !.readers = @ \cup {c}]
    /\ UNCHANGED <<greedy, splitter>>
    /\ UNCHANGED dispatchVars
    /\ UNCHANGED libVars
    /\ UNCHANGED traitVars
    /\ UNCHANGED readlineVars

\* complete returns and the event is dropped.
EndComplete ==
    /\ request.active
    /\ request' = NoRequest
    /\ UNCHANGED <<greedy, splitter>>
    /\ UNCHANGED dispatchVars
    /\ UNCHANGED libVars
    /\ UNCHANGED traitVars
    /\ UNCHANGED readlineVars

\* A manager made with the defaults: no completer is exclusive.
EventInit == Init /\ exclusive = [c \in Completers |-> FALSE]

EventNext ==
    \/ \E new \in BOOLEAN : SetGreedy(new)
    \/ \E block \in Texts, cursor \in Cursors : BeginComplete(block, cursor)
    \/ \E c \in Completers : ReadTokens(c)
    \/ EndComplete

EventSpec == EventInit /\ [][EventNext]_vars

(***************************************************************************)
(* The traits str_key and filter_results of a completer                    *)
(***************************************************************************)

\* The lines of the requests: "", " ", "a", "cd" and "cd ".
LineTexts == {<<>>, <<32>>, <<97>>, TextCd, TextCdSpace}

\* The values str_key is set to: "" (the default) and "cd".
StrKeys == {<<>>, TextCd}

\* What match does in these requests: it returns None, or candidates "b"
\* and "a" of one kind.
TraitOutcomes == {ReturnsNone, ReturnsDict(FilesBA)}

\* manager.register(completer) for a completer that is not registered
RegisterOnce(c) ==
    /\ c \notin Range(registry)
    /\ Register(<<InstanceOf(c)>>)

\* completer.str_key = key
SetStrKey(c, key) ==
    /\ Idle
    /\ str_key' = [str_key EXCEPT ![c] = key]
    /\ UNCHANGED filter_results
    /\ UNCHANGED dispatchVars
    /\ UNCHANGED eventVars
    /\ UNCHANGED libVars
    /\ UNCHANGED readlineVars

\* completer.filter_results = new
SetFilterResults(c, new) ==
    /\ Idle
    /\ filter_results' = [filter_results EXCEPT ![c] = new]
    /\ UNCHANGED str_key
    /\ UNCHANGED dispatchVars
    /\ UNCHANGED eventVars
    /\ UNCHANGED libVars
    /\ UNCHANGED readlineVars

\* manager.complete(block) for a block of one line: the event is made by
\* the splitter, and the loop over the registry runs; it reads neither
\* str_key nor filter_results of a completer.
CompleteLine(block, beh) ==
    LET event == CompletionEvent(block, splitter)
        r == complete(registry, exclusive, beh)
    IN  /\ Idle
        /\ last' = [op |-> "complete", beh |-> beh, registry |-> registry,
                    raised |-> r.raised, value |-> r.value, invoked |-> r.invoked,
                    line |-> block, text |-> event.text]
        /\ UNCHANGED <<registry, exclusive, manager, regOrder>>
        /\ UNCHANGED eventVars
        /\ UNCHANGED libVars
        /\ UNCHANGED traitVars
        /\ UNCHANGED readlineVars

TraitInit == EventInit

TraitNext ==
    \/ \E c \in Completers : RegisterOnce(c)
    \/ \E c \in Completers, key \in StrKeys : SetStrKey(c, key)
    \/ \E c \in Completers, new \in BOOLEAN : SetFilterResults(c, new)
    \/ \E block \in LineTexts, beh \in [Completers -> TraitOutcomes] :
          CompleteLine(block, beh)
    \/ Return

TraitSpec == TraitInit /\ [][TraitNext]_vars

(***************************************************************************)
(* RLCompletionManager.rlcomplete                                          *)
(***************************************************************************)

\* The characters str.strip() removes.
Whitespace == {32, 9, 10, 11, 12, 13}

\* line.strip(), as the condition of rlcomplete reads it: true iff a
\* character is left.
strip(line) == \E i \in 1..Len(line) : line[i] \notin Whitespace

\* What readline hands back: None, or a str.
NoneValue == [isNone |-> TRUE, val |-> <<>>]
StrValue(v) == [isNone |-> FALSE, val |-> v]

\* sorted(set([e for lst in c.values() for e in lst]))
flatten(c) == SortedSet(UNION {Range(c[k]) : k \in DOMAIN c})

\* self._completions[state]; IndexError gives None.
completionAt(compl, state) ==
    IF compl.isNone
    THEN [raised |-> "TypeError", returned |-> NoneValue]
    ELSE IF state + 1 <= Len(compl.val)
         THEN [raised |-> "none", returned |-> StrValue(compl.val[state + 1])]
         ELSE [raised |-> "none", returned |-> NoneValue]

\* rlcomplete(text, state) with line as readline's line buffer and the
\* cursor at its end. calls counts the calls of complete.
rlcomplete(reg, excl, compl, dumb, line, beh, state) ==
    IF state = 0
    THEN LET c == complete(reg, excl, beh)
         IN  IF c.raised # "none"
             THEN [raised |-> c.raised, returned |-> NoneValue,
                   completions |-> compl, calls |-> 1]
             ELSE LET new == CompletionList(flatten(c.value))
                  IN  IF ~(dumb \/ strip(line))
                      THEN [raised |-> "none", returned |-> NoneValue,
                            completions |-> new, calls |-> 1]
                      ELSE LET r == completionAt(new, state)
                           IN  [raised |-> r.raised, returned |-> r.returned,
                                completions |-> new, calls |-> 1]
    ELSE LET r == completionAt(compl, state)
         IN  [raised |-> r.raised, returned |-> r.returned,
              completions |-> compl, calls |-> 0]

\* What match does in the requests of readline.
ReadlineOutcomes ==
    {Raises, ReturnsNone, ReturnsDict(FilesBA), ReturnsDict(FilesCBKw)}

\* readline calls rlcomplete(text, 0) on the line the user typed.
RlCompleteFirst(line, beh) ==
    LET r == rlcomplete(registry, exclusive, completions, dumb_terminal,
                        line, beh, 0)
        c == complete(registry, exclusive, beh)
    IN  /\ Idle
        /\ completions' = r.completions
        /\ last' = [op |-> "rlcomplete", line |-> line, beh |-> beh,
                    registry |-> registry, state |-> 0, raised |-> r.raised,
                    returned |-> r.returned, calls |-> r.calls,
                    matches |-> c.value]
        /\ UNCHANGED dumb_terminal
        /\ UNCHANGED <<registry, exclusive, manager, regOrder>>
        /\ UNCHANGED eventVars
        /\ UNCHANGED libVars
        /\ UNCHANGED traitVars

\* readline calls rlcomplete(text, state + 1) after a call that returned a
\* str.
RlCompleteNext ==
    /\ last.op = "rlcomplete"
    /\ last.raised = "none"
    /\ ~last.returned.isNone
    /\ LET r == rlcomplete(registry, exclusive, completions, dumb_terminal,
                           last.line, last.beh, last.state + 1)
       IN  /\ completions' = r.completions
           /\ last' = [last EXCEPT !.state = last.state + 1,
                                   !.raised = r.raised,
                                   !.returned = r.returned,
                                   !.calls = last.calls + r.calls]
    /\ UNCHANGED dumb_terminal
    /\ UNCHANGED <<registry, exclusive, manager, regOrder>>
    /\ UNCHANGED eventVars
    /\ UNCHANGED libVars
    /\ UNCHANGED traitVars

\* TERM is 'dumb' or 'emacs', or it is another terminal.
ReadlineInit ==
    /\ registry = <<>>
    /\ exclusive = [c \in Completers |-> FALSE]
    /\ manager = {}
    /\ regOrder = <<>>
    /\ last = NoCall
    /\ greedy = FALSE
    /\ splitter = CompletionSplitter
    /\ request = NoRequest
    /\ applied = NoApplication
    /\ str_key = [c \in Completers |-> <<>>]
    /\ filter_results = [c \in Completers |-> TRUE]
    /\ completions = NoCompletions
    /\ dumb_terminal \in BOOLEAN

ReadlineNext ==
    \/ \E c \in Completers : RegisterOnce(c)
    \/ \E line \in LineTexts, beh \in [Completers -> ReadlineOutcomes] :
          RlCompleteFirst(line, beh)
    \/ RlCompleteNext
    \/ Return

ReadlineSpec == ReadlineInit /\ [][ReadlineNext]_vars

(***************************************************************************)
(* complete while match changes the registry                               *)
(***************************************************************************)

\* What match of a completer does besides returning, the first time it is
\* invoked in a call of complete: nothing, other.exclusive = not
\* other.exclusive, or manager.register(other).
NoEffect == [do |-> "none", on |-> "none"]
FlipExclusive(d) == [do |-> "flip", on |-> d]
RegisterAnother(d) == [do |-> "register", on |-> d]

Effects ==
    {NoEffect} \cup {FlipExclusive(d) : d \in Completers}
               \cup {RegisterAnother(d) : d \in Completers}

\* The registry and the flags after the effect e.
applyEffect(reg, mgr, order, excl, e) ==
    IF e.do = "flip"
    THEN LET excl1 == [excl EXCEPT ![e.on] = ~excl[e.on]]
             r == exclusive_changed(reg, mgr, order, excl1, e.on,
                                    excl[e.on], ~excl[e.on])
         IN  [registry |-> r.registry, manager |-> r.manager,
              regOrder |-> r.regOrder, exclusive |-> excl1, raised |-> r.raised]
    ELSE IF e.do = "register"
    THEN LET r == register(reg, mgr, order, excl, <<InstanceOf(e.on)>>, 1)
         IN  [registry |-> r.registry, manager |-> r.manager,
              regOrder |-> r.regOrder, exclusive |-> excl, raised |-> r.raised]
    ELSE [registry |-> reg, manager |-> mgr, regOrder |-> order,
          exclusive |-> excl, raised |-> "none"]

\* No completer has returned an object yet.
NoObjects == [c \in Completers |-> Unbound]

\* collected_matches = these_matches; break; and the return statement,
\* with a sort of each list in place.
exclusiveReturnSortsInPlace(objects, owner) ==
    LET v == [k \in DOMAIN objects[owner].val |->
                 SortedList(objects[owner].val[k])]
    IN  [value |-> v,
         objects |-> [objects EXCEPT ![owner] = ReturnsDict(v)]]

\* collected_matches = these_matches; break; and the return statement:
\* sorted(v) makes a new list of each kind, and the dict is new. objects
\* holds the object each completer returned, owner the completer whose
\* object these_matches is.
exclusiveReturn(objects, owner) ==
    [value |-> [k \in DOMAIN objects[owner].val |->
                   SortedList(objects[owner].val[k])],
     objects |-> objects]

\* The loop of complete over the list self.registry itself: the for
\* statement reads element i of the list as it is when it gets there.
\* cur holds the registry, the flags and the back references; done the
\* completers whose effect has happened; returned what each match
\* returned, objects the same objects as they are now.
RECURSIVE completeLive(_, _, _, _, _, _, _, _, _, _, _)
completeLive(cur, beh, eff, i, these, owner, collected, invoked, done, returned, objects) ==
    IF i > Len(cur.registry)
    THEN [raised |-> "none",
          value |-> [k \in DOMAIN collected |-> SortedSet(collected[k])],
          invoked |-> invoked, short |-> FALSE, cur |-> cur,
          returned |-> returned, objects |-> objects]
    ELSE LET completer == cur.registry[i]
             e == IF completer \in done THEN NoEffect ELSE eff[completer]
             cur1 == applyEffect(cur.registry, cur.manager, cur.regOrder,
                                 cur.exclusive, e)
             out == IF cur1.raised # "none" THEN Raises ELSE beh[completer]
             these1 == IF out.tag = "raise" THEN these ELSE out
             owner1 == IF out.tag = "raise" THEN owner ELSE completer
             returned1 == IF out.tag = "raise" THEN returned
                          ELSE [returned EXCEPT ![completer] = out]
             objects1 == IF out.tag = "raise" THEN objects
                         ELSE [objects EXCEPT ![completer] = out]
             invoked1 == Append(invoked, completer)
         IN  IF these1.tag = "unbound"
             THEN [raised |-> "UnboundLocalError", value |-> EmptyDict,
                   invoked |-> invoked1, short |-> FALSE, cur |-> cur1,
                   returned |-> returned1, objects |-> objects1]
             ELSE IF ExclusiveHit(cur1.exclusive, completer, objects1[owner1])
             THEN LET r == exclusiveReturn(objects1, owner1)
                  IN  [raised |-> "none", value |-> r.value,
                       invoked |-> invoked1, short |-> TRUE, cur |-> cur1,
                       returned |-> returned1, objects |-> r.objects]
             ELSE completeLive(cur1, beh, eff, i + 1, these1, owner1,
                               IF these1.tag # "none"
                               THEN Merge(collected, objects1[owner1].val)
                               ELSE collected,
                               invoked1, done \cup {completer},
                               returned1, objects1)

\* What match does in these calls.
LiveOutcomes == {Raises, ReturnsNone, ReturnsDict(FilesBA)}

\* The effects of one call: at most one completer has one, and it is on
\* another completer.
LiveEffects ==
    {[c \in Completers |-> IF c = d /\ e.on # d THEN e ELSE NoEffect] :
        d \in Completers, e \in Effects}

\* manager.complete(block) with completers whose match changes the
\* registry.
CompleteLive(beh, eff) ==
    LET start == [registry |-> registry, manager |-> manager,
                  regOrder |-> regOrder, exclusive |-> exclusive,
                  raised |-> "none"]
        r == completeLive(start, beh, eff, 1, Unbound, "A",
                          [k \in {} |-> {}], <<>>, {}, NoObjects, NoObjects)
    IN  /\ Idle
        /\ Len(registry) + 2 <= MaxLen
        /\ registry' = r.cur.registry
        /\ exclusive' = r.cur.exclusive
        /\ manager' = r.cur.manager
        /\ regOrder' = r.cur.regOrder
        /\ last' = [op |-> "complete", beh |-> beh, eff |-> eff,
                    registry |-> registry, raised |-> r.raised,
                    value |-> r.value, invoked |-> r.invoked,
                    short |-> r.short, returned |-> r.returned,
                    objects |-> r.objects]
        /\ UNCHANGED eventVars
        /\ UNCHANGED libVars
        /\ UNCHANGED traitVars
        /\ UNCHANGED readlineVars

LiveInit == EventInit

LiveNext ==
    \/ \E c \in Completers : RegisterOnce(c)
    \/ \E beh \in [Completers -> LiveOutcomes], eff \in LiveEffects :
          CompleteLive(beh, eff)
    \/ Return

LiveSpec == LiveInit /\ [][LiveNext]_vars

(***************************************************************************)
(* The functions of the modules, called on their own                       *)
(***************************************************************************)

\* The characters of the source texts: "a", " ", "\n" and "(".
SourceAlphabet == {97, 32, 10, 40}

Sources == UNION {[1..n -> SourceAlphabet] : n \in 0..MaxSrc}

\* tokenize(src)
Tokenize(src) ==
    /\ applied.fn = "none"
    /\ LET r == tokenize(src)
       IN  applied' = [fn |-> "tokenize", src |-> src, raised |-> r.raised,
                       value |-> r.value]
    /\ UNCHANGED dispatchVars
    /\ UNCHANGED eventVars
    /\ UNCHANGED traitVars
    /\ UNCHANGED readlineVars

\* The tokens the lists are made of: "a", "(", ")", "." and "+".
TokenAlphabet == {TokA, TokOpen, TokClose, TokDot, TokPlus}

\* The tokens of a.b( , of x+foo( and of foo(1+bar(x), pa
TokensDotted == <<TokA, TokDot, TokB, TokOpen>>
TokensSum == <<TokX, TokPlus, TokFoo, TokOpen>>
TokensNested ==
    <<TokFoo, TokOpen, TokOne, TokPlus, TokBar, TokOpen, TokX, TokClose,
      TokComma, TokPa>>

TokenLists ==
    UNION {[1..n -> TokenAlphabet] : n \in 0..MaxToks}
        \cup {TokensDotted, TokensSum, TokensNested}

\* last_open_identifier(tokens)
LastOpenIdentifier(toks) ==
    /\ applied.fn = "none"
    /\ LET r == last_open_identifier(toks)
       IN  applied' = [fn |-> "last_open_identifier", tokens |-> toks,
                       raised |-> r.raised, identifiers |-> r.identifiers,
                       tokens_after_identifier |-> r.tokens_after_identifier]
    /\ UNCHANGED dispatchVars
    /\ UNCHANGED eventVars
    /\ UNCHANGED traitVars
    /\ UNCHANGED readlineVars

\* The function returns, or its exception reaches the caller.
Done ==
    /\ applied.fn # "none"
    /\ applied' = NoApplication
    /\ UNCHANGED dispatchVars
    /\ UNCHANGED eventVars
    /\ UNCHANGED traitVars
    /\ UNCHANGED readlineVars

LibInit == EventInit

LibNext ==
    \/ \E src \in Sources : Tokenize(src)
    \/ \E toks \in TokenLists : LastOpenIdentifier(toks)
    \/ Done

LibSpec == LibInit /\ [][LibNext]_vars

(***************************************************************************)
(* Properties                                                              *)
(***************************************************************************)

\* s without any occurrence of c: the registry had c never been registered.
Without(s, c) == SelectSeq(s, LAMBDA x : x # c)

\* match returned a dict that has at least one key.
NonEmptyResult(o) == o.tag = "dict" /\ DOMAIN o.val # {}

\* match returned a dict all of whose candidate collections are empty.
OnlyEmptySets(o) == o.tag = "dict" /\ \A k \in DOMAIN o.val : Len(o.val[k]) = 0

Count(s, x) == Cardinality({i \in 1..Len(s) : s[i] = x})

Ascending(s) == \A i \in 1..(Len(s) - 1) : ~StrLess(s[i + 1], s[i])

StrictlyAscending(s) == \A i \in 1..(Len(s) - 1) : StrLess(s[i], s[i + 1])

\* out holds the strings of in, each as often as in holds it, in ascending order.
IsSortedCopy(out, in) ==
    /\ Len(out) = Len(in)
    /\ \A x \in Range(in) \cup Range(out) : Count(out, x) = Count(in, x)
    /\ Ascending(out)

\* The dict d is the dict a completer returned, each kind's candidates sorted.
IsSortedResult(d, o) ==
    /\ DOMAIN d = DOMAIN o.val
    /\ \A k \in DOMAIN d : IsSortedCopy(d[k], o.val[k])

\* The exclusive completers of the registry of the latest call.
ExclusiveRegistered == {c \in Range(last.registry) : exclusive[c]}

\* The completer of S registered earliest / latest (S holds registered completers).
FirstRegistered(S) ==
    regOrder[CHOOSE i \in 1..Len(regOrder) :
                regOrder[i] \in S /\ \A j \in 1..(i - 1) : regOrder[j] \notin S]

LastRegistered(S) ==
    regOrder[CHOOSE i \in 1..Len(regOrder) :
                regOrder[i] \in S /\ \A j \in (i + 1)..Len(regOrder) : regOrder[j] \notin S]

\* The candidates the registered completers returned for kind k in the latest call.
ReturnedFor(k) ==
    UNION {Range(last.beh[c].val[k]) :
              c \in {x \in Range(last.registry) :
                        last.beh[x].tag = "dict" /\ k \in DOMAIN last.beh[x].val}}

\* C1: in the registry every exclusive completer sits at a lower index than
\* every completer that is not exclusive, after any sequence of register
\* calls and flag flips (a completer may be registered more than once).
C1_ExclusiveFirst ==
    \A i, j \in 1..Len(registry) :
        exclusive[registry[i]] /\ ~exclusive[registry[j]] => i < j

\* C2: when an exclusive completer returns a dict that is not None and not
\* empty, complete returns exactly that dict with each kind's candidates
\* sorted, and no completer after it in the registry is invoked.
C2_ExclusiveResultAlone ==
    last.op = "complete" =>
        \A i \in 1..Len(last.invoked) :
            LET c == last.invoked[i]
            IN  exclusive[c] /\ NonEmptyResult(last.beh[c]) =>
                    /\ last.raised = "none"
                    /\ IsSortedResult(last.value, last.beh[c])
                    /\ last.invoked = SubSeq(last.registry, 1, i)

\* The case of C2: an exclusive completer that is not the first of the
\* registry answers; a completer before it returned a dict and one after
\* it would have returned candidates too.
C2_Witness ==
    /\ last.op = "complete"
    /\ Len(last.registry) >= 3
    /\ Len(last.invoked) = 2
    /\ exclusive[last.invoked[2]]
    /\ last.beh[last.invoked[2]] = ReturnsDict(FilesBA)
    /\ last.beh[last.invoked[1]].tag = "dict"
    /\ last.beh[last.registry[3]] = ReturnsDict(FilesCBKw)
    /\ last.value = [k \in {"files"} |-> <<StrA, StrB>>]

C4_CompleteNeverRaises ==
    last.op = "complete" => last.raised = "none"

\* C5: whenever complete returns, its result is the result of the same call
\* with a completer whose match raised absent from the registry.
C5_RaisingIsEmptyContribution ==
    (last.op = "complete" /\ last.raised = "none") =>
        \A c \in Range(last.registry) :
            last.beh[c].tag = "raise" =>
                LET r == complete(Without(last.registry, c), exclusive, last.beh)
                IN  r.raised = "none" /\ r.value = last.value

\* C6: when no exclusive completer returns a non-empty dict, complete
\* returns for each kind the sorted duplicate-free union of the non-empty
\* candidate collections the registered completers returned for it.
C6_MergedUnion ==
    (/\ last.op = "complete"
     /\ \A c \in Range(last.registry) :
           ~(exclusive[c] /\ NonEmptyResult(last.beh[c])))
        => /\ last.raised = "none"
           /\ DOMAIN last.value = {k \in Kinds : ReturnedFor(k) # {}}
           /\ \A k \in DOMAIN last.value :
                 /\ StrictlyAscending(last.value[k])
                 /\ Range(last.value[k]) = ReturnedFor(k)

\* C7: a completer that returns None contributes nothing: the outcome of
\* complete is the outcome of the same call without that completer in the
\* registry.
C7_NoneContributesNothing ==
    last.op = "complete" =>
        \A c \in Range(last.registry) :
            last.beh[c] = ReturnsNone =>
                LET r == complete(Without(last.registry, c), exclusive, last.beh)
                IN  r.raised = last.raised /\ r.value = last.value

\* C8: a completer whose dict holds only empty candidate collections
\* contributes nothing: the outcome of complete is the outcome of the same
\* call with that completer returning None, exclusive or not.
C8_OnlyEmptyLikeNone ==
    last.op = "complete" =>
        \A c \in Range(last.registry) :
            OnlyEmptySets(last.beh[c]) =>
                LET r == complete(last.registry, exclusive,
                                  [last.beh EXCEPT ![c] = ReturnsNone])
                IN  r.raised = last.raised /\ r.value = last.value

\* C9: complete leaves the registry as it was before the call, whatever the
\* completers return or raise.
C9_RegistryUnchanged ==
    last.op = "complete" => registry = last.registry

\* The case of C9: complete has run over a registry of several completers,
\* one of which raised and one of which returned candidates.
C9_Witness ==
    /\ last.op = "complete"
    /\ Len(last.registry) >= 3
    /\ Len(last.invoked) >= 2
    /\ \E c \in Range(last.invoked) : last.beh[c].tag = "raise"
    /\ \E c \in Range(last.invoked) : NonEmptyResult(last.beh[c])
    /\ registry = last.registry

\* C10: register raises TypeError when an argument is no BaseCompleter
\* instance and no class that instantiates to one, and the registry never
\* holds such an object.
C10_RejectsNonCompleter ==
    /\ Range(registry) \subseteq Completers
    /\ last.op = "register" =>
          ((\E i \in 1..Len(last.objs) : ~IsBaseCompleter(Instantiate(last.objs[i])))
              => last.raised = "TypeError")

\* The case of C10: register was called with an object that is no
\* completer and raised TypeError.
C10_Witness ==
    /\ last.op = "register"
    /\ \E i \in 1..Len(last.objs) : last.objs[i] \in {OtherObject, OtherClass}
    /\ last.raised = "TypeError"
    /\ Range(registry) \subseteq Completers

\* s without its entry at index i.
DropAt(s, i) == SubSeq(s, 1, i - 1) \o SubSeq(s, i + 1, Len(s))

\* C11: _completer_exclusive_changed called with a completer that is not in
\* the registry raises ValueError and leaves the registry as it was.
C11_UnregisteredRaisesValueError ==
    (last.op = "notify" /\ last.completer \notin Range(last.registry)) =>
        /\ last.raised = "ValueError"
        /\ registry = last.registry

\* The case of C11: the notification came for a completer that is not in a
\* registry of several other completers, and ValueError was raised.
C11_Witness ==
    /\ last.op = "notify"
    /\ Len(last.registry) >= 2
    /\ last.completer \notin Range(last.registry)
    /\ last.raised = "ValueError"
    /\ registry = last.registry

\* C12: _completer_exclusive_changed(c) for a registered completer c (called
\* directly or by a flip of c.exclusive) changes only the position of c:
\* the registry holds every entry as often as before, the entries other
\* than c keep their relative order, and so do all entries but the one
\* occurrence of c that moved.
C12_OnlyPositionChanges ==
    (/\ last.op \in {"notify", "exclusive"}
     /\ last.completer \in Range(last.registry))
        => /\ last.raised = "none"
           /\ \A x \in Completers : Count(registry, x) = Count(last.registry, x)
           /\ Without(registry, last.completer) = Without(last.registry, last.completer)
           /\ \E i \in 1..Len(registry), j \in 1..Len(last.registry) :
                 /\ registry[i] = last.completer
                 /\ last.registry[j] = last.completer
                 /\ DropAt(registry, i) = DropAt(last.registry, j)

\* The case of C12: the notification came for a completer that is
\* registered twice among other completers, and one occurrence of it moved.
C12_Witness ==
    /\ last.op = "notify"
    /\ Count(last.registry, last.completer) >= 2
    /\ Len(Without(last.registry, last.completer)) >= 2
    /\ last.raised = "none"
    /\ registry # last.registry

\* C13: within one complete call match is invoked on the completers of the
\* registry one after another in registry order, and on no completer more
\* than once: a completer that raised or returned None is not invoked again.
C13_InOrderAtMostOnce ==
    last.op = "complete" =>
        /\ \E n \in 0..Len(last.registry) : last.invoked = SubSeq(last.registry, 1, n)
        /\ \A c \in Completers : Count(last.invoked, c) <= 1

\* C14: every kind of the dict a complete call returns maps to a list in
\* ascending order that holds no string twice, when the results were merged
\* and when the result of an exclusive completer was returned alone.
C14_SortedDuplicateFree ==
    (last.op = "complete" /\ last.raised = "none") =>
        \A k \in DOMAIN last.value :
            /\ Ascending(last.value[k])
            /\ \A x \in Range(last.value[k]) : Count(last.value[k], x) = 1

\* The case of C14: two completers, neither exclusive, returned unsorted
\* candidates of one kind with a string in common, and complete merged them.
C14_Witness ==
    /\ last.op = "complete"
    /\ last.raised = "none"
    /\ \E c, d \in Range(last.invoked) :
          /\ ~exclusive[c] /\ ~exclusive[d]
          /\ last.beh[c] = ReturnsDict(FilesBA)
          /\ last.beh[d] = ReturnsDict(FilesCBKw)
    /\ last.invoked = last.registry
    /\ last.value["files"] = <<StrA, StrB, StrC>>

\* The maximal runs of characters of t that are not in D, each as its
\* first and its last index.
MaximalRuns(t, D) ==
    {r \in (1..Len(t)) \X (1..Len(t)) :
        /\ r[1] <= r[2]
        /\ \A k \in r[1]..r[2] : t[k] \notin D
        /\ (r[1] = 1 \/ t[r[1] - 1] \in D)
        /\ (r[2] = Len(t) \/ t[r[2] + 1] \in D)}

\* f lists the maximal runs of t outside D in the order of the text, and
\* has nothing after them but at most one empty string.
ListsRuns(f, t, D) ==
    LET runs == MaximalRuns(t, D)
        n == Cardinality(runs)
    IN  /\ Len(f) \in {n, n + 1}
        /\ \A k \in 1..n :
              \E r \in runs :
                  /\ Cardinality({q \in runs : q[1] < r[1]}) = k - 1
                  /\ f[k] = SubSeq(t, r[1], r[2])
        /\ Len(f) = n + 1 => f[n + 1] = <<>>

\* f has the empty string after the runs of t.
HasTrailingEmpty(f, t, D) == Len(f) = Cardinality(MaximalRuns(t, D)) + 1

\* The last character of t is in D.
EndsInDelimiter(t, D) == Len(t) > 0 /\ t[Len(t)] \in D

\* d.join(f)
RECURSIVE Join(_, _)
Join(f, d) ==
    IF Len(f) = 0 THEN <<>>
    ELSE IF Len(f) = 1 THEN f[1]
    ELSE f[1] \o <<d>> \o Join(Tail(f), d)

\* C15 as stated: split returns the maximal runs of non-delimiter characters
\* of the text in order, and one empty string after them exactly when the
\* last character of the text is a delimiter.
C15_EmptyOnlyAfterDelimiter ==
    request.active =>
        LET e == request.event
        IN  /\ ListsRuns(e.split, e.block, splitter.delims)
            /\ HasTrailingEmpty(e.split, e.block, splitter.delims)
                  <=> EndsInDelimiter(e.block, splitter.delims)

\* C15 as amended: split returns the maximal runs of non-delimiter
\* characters of the text in order, and one empty string after them exactly
\* when the text is empty or its last character is a delimiter.
C15_EmptyAfterDelimiterOrNothing ==
    request.active =>
        LET e == request.event
        IN  /\ ListsRuns(e.split, e.block, splitter.delims)
            /\ HasTrailingEmpty(e.split, e.block, splitter.delims)
                  <=> (e.block = <<>> \/ EndsInDelimiter(e.block, splitter.delims))

\* The case of C15: the text "cd " was split into "cd" and "".
C15_Witness ==
    /\ request.active
    /\ request.event.block = TextCdSpace
    /\ request.event.split = <<TextCd, <<>> >>

\* C16: when the text does not end in a delimiter, its fragments joined by
\* one delimiter character, whichever, split into as many fragments as the
\* text did.
C16_JoinSplitSameCount ==
    (request.active /\ ~EndsInDelimiter(request.event.block, splitter.delims)) =>
        \A d \in splitter.delims :
            Len(split(splitter, Join(request.event.split, d)))
                = Len(request.event.split)

\* The case of C16: a text that does not end in a delimiter was split into
\* several fragments, and the fragments joined by a blank are another text.
C16_Witness ==
    /\ request.active
    /\ ~EndsInDelimiter(request.event.block, splitter.delims)
    /\ Len(request.event.split) >= 2
    /\ Join(request.event.split, 32) # request.event.block
    /\ Len(split(splitter, Join(request.event.split, 32))) = Len(request.event.split)

\* C17 as stated: under the greedy profile split("a.b c") returns fewer
\* fragments than under the standard profile.
C17_GreedyFewerOnExample ==
    (/\ request.active
     /\ request.event.block = TextADotBSpaceC
     /\ splitter.delims = GREEDY_DELIMS)
        => Len(request.event.split) < Len(split(delims_setter(DELIMS), TextADotBSpaceC))

\* C17 as amended: split("a.b c") returns "a.b" and "c" under the standard
\* and under the greedy profile; split("a(a") returns "a" and "a" under
\* the standard profile and "a(a" alone under the greedy profile.
C17_ProfilesDifferOnParen ==
    request.active =>
        /\ request.event.block = TextADotBSpaceC
              => request.event.split = <<SubSeq(TextADotBSpaceC, 1, 3),
                                         SubSeq(TextADotBSpaceC, 5, 5)>>
        /\ request.event.block = TextAParenA
              => request.event.split =
                    IF splitter.delims = GREEDY_DELIMS
                    THEN <<TextAParenA>>
                    ELSE <<SubSeq(TextAParenA, 1, 1), SubSeq(TextAParenA, 3, 3)>>

\* The case of C17: "a.b c" was split under the greedy profile.
C17_Witness ==
    /\ request.active
    /\ splitter.delims = GREEDY_DELIMS
    /\ request.event.block = TextADotBSpaceC
    /\ Len(request.event.split) = 2

\* C18: whatever was assigned to greedy, the splitter holds GREEDY_DELIMS
\* when greedy is true and DELIMS when it is false and its regular
\* expression matches those characters, and the event of a request is
\* split at those characters.
C18_SplitterFollowsGreedy ==
    LET D == IF greedy THEN GREEDY_DELIMS ELSE DELIMS
    IN  /\ splitter.delims = D
        /\ splitter.re = D
        /\ request.active => ListsRuns(request.event.split, request.event.block, D)

\* The case of C18: greedy was set and the next request left "a(a" whole.
C18_Witness ==
    /\ greedy
    /\ request.active
    /\ request.event.block = TextAParenA
    /\ request.event.split = <<TextAParenA>>

\* C19: complete called with a cursor_position below 0 or above the length
\* of the block raises an error.
C19_OutOfRangeCursorRaises ==
    (/\ request.active
     /\ request.cursor.given
     /\ (request.cursor.pos < 0 \/ request.cursor.pos > Len(request.block)))
        => request.raised # "none"

\* C20: within one request tokenize runs at most once, however many
\* completers read event.tokens and however often, and not at all when no
\* completer reads it.
C20_TokenizeAtMostOnce ==
    request.active =>
        /\ request.runs <= 1
        /\ request.reads = 0 => request.runs = 0

\* C21: tokenize raises for no source text: for a text that is cut short or
\* malformed it returns the tokens it recognised before the problem.
C21_TokenizeNeverRaises ==
    applied.fn = "tokenize" => applied.raised = "none"

\* The stack of a matcher that reads the first n tokens front to back: the
\* indices of the "(" that no ")" has closed yet. A ")" on an empty stack
\* closes nothing.
RECURSIVE OpenStack(_, _)
OpenStack(toks, n) ==
    IF n = 0 THEN <<>>
    ELSE LET st == OpenStack(toks, n - 1)
         IN  IF toks[n] = TokOpen THEN Append(st, n)
             ELSE IF toks[n] = TokClose /\ Len(st) > 0 THEN SubSeq(st, 1, Len(st) - 1)
             ELSE st

\* C22: last_open_identifier returns as call tokens the suffix from the
\* last "(" that no ")" after it closes, as a stack matcher reading front
\* to back finds it, and raises ValueError exactly when there is none; for
\* the tokens of foo(1+bar(x), pa the suffix starts at the "(" after foo.
C22_SuffixFromNearestUnclosed ==
    applied.fn = "last_open_identifier" =>
        LET st == OpenStack(applied.tokens, Len(applied.tokens))
        IN  /\ applied.raised = "ValueError" <=> st = <<>>
            /\ applied.raised \in {"none", "ValueError"}
            /\ st # <<>> =>
                  applied.tokens_after_identifier
                      = SubSeq(applied.tokens, st[Len(st)], Len(applied.tokens))
            /\ applied.tokens = TokensNested =>
                  /\ applied.tokens_after_identifier = SubSeq(TokensNested, 2, 10)
                  /\ applied.identifiers = <<TokFoo>>

\* The case of C22: the tokens of foo(1+bar(x), pa were given, and the call
\* tokens start after foo.
C22_Witness ==
    /\ applied.fn = "last_open_identifier"
    /\ applied.tokens = TokensNested
    /\ applied.raised = "none"
    /\ Len(applied.tokens_after_identifier) = 9

\* The number of names of the dotted name that ends at index i of toks:
\* names at i, i - 2, ... with a "." before each but the first.
RECURSIVE NameParts(_, _)
NameParts(toks, i) ==
    IF i < 1 \/ ~isId(toks[i]) THEN 0
    ELSE IF i >= 3 /\ toks[i - 1] = TokDot THEN 1 + NameParts(toks, i - 2)
    ELSE 1

\* C23: the identifiers last_open_identifier returns are, in source order,
\* the names of the dotted name that ends right before the unclosed "(":
\* the tokens of a.b( give [a, b], those of x+foo( give [foo], and a "("
\* with no name before it gives the empty list.
C23_DottedNameInSourceOrder ==
    (applied.fn = "last_open_identifier" /\ applied.raised = "none") =>
        LET toks == applied.tokens
            p == Len(toks) - Len(applied.tokens_after_identifier) + 1
            n == NameParts(toks, p - 1)
        IN  /\ Len(applied.identifiers) = n
            /\ \A k \in 1..n : applied.identifiers[k] = toks[p - 1 - 2 * (n - k)]
            /\ toks = TokensDotted => applied.identifiers = <<TokA, TokB>>
            /\ toks = TokensSum => applied.identifiers = <<TokFoo>>
            /\ (p = 1 \/ (p > 1 /\ ~isId(toks[p - 1]))) => applied.identifiers = <<>>

\* The case of C23: the tokens of a.b( were given and [a, b] came back.
C23_Witness ==
    /\ applied.fn = "last_open_identifier"
    /\ applied.tokens = TokensDotted
    /\ applied.identifiers = <<TokA, TokB>>

\* s begins with prefix (str.startswith).
StartsWith(s, prefix) ==
    Len(prefix) <= Len(s) /\ SubSeq(s, 1, Len(prefix)) = prefix

\* C24: complete invokes match of a completer whose str_key is not empty
\* only when the line of the request begins with str_key.
C24_StrKeyGuardsInvocation ==
    (last.op = "complete" /\ "line" \in DOMAIN last) =>
        \A c \in Range(last.invoked) :
            str_key[c] # <<>> => StartsWith(last.line, str_key[c])

\* C25: every candidate in the dict complete returns that comes from a
\* completer with filter_results true begins with the text of the event.
C25_FilteredByText ==
    (last.op = "complete" /\ "text" \in DOMAIN last /\ last.raised = "none") =>
        \A c \in Range(last.invoked) :
            (filter_results[c] /\ last.beh[c].tag = "dict") =>
                \A k \in DOMAIN last.value \cap DOMAIN last.beh[c].val :
                    \A x \in Range(last.value[k]) \cap Range(last.beh[c].val[k]) :
                        StartsWith(x, last.text)

\* C26: on a line that is not only whitespace, the call rlcomplete(text,
\* state) of a sequence returns element state of the sorted list, without
\* duplicates, of the candidates of all kinds of the one complete call the
\* state-0 call made, and None from the length of that list on.
C26_ReadlineSequence ==
    (last.op = "rlcomplete" /\ strip(last.line)) =>
        /\ last.raised = "none"
        /\ last.calls = 1
        /\ ~completions.isNone
        /\ StrictlyAscending(completions.val)
        /\ Range(completions.val) =
              UNION {Range(last.matches[k]) : k \in DOMAIN last.matches}
        /\ IF last.state < Len(completions.val)
           THEN last.returned = StrValue(completions.val[last.state + 1])
           ELSE last.returned = NoneValue

\* C27: in one complete call every completer of the registry at the start
\* of the call is invoked at most once, and exactly once when no exclusive
\* completer ends the call, also when a match flips an exclusive flag or
\* registers a completer during the call.
C27_OnceUnderMutation ==
    (last.op = "complete" /\ last.raised = "none"
        /\ \A c \in Range(last.registry) : Count(last.registry, c) = 1) =>
        \A c \in Range(last.registry) :
            /\ Count(last.invoked, c) <= 1
            /\ ~last.short => Count(last.invoked, c) = 1

\* C29: after complete returns, every object a completer returned has the
\* content it had when match returned it.
C29_ReturnedObjectsUntouched ==
    last.op = "complete" => last.objects = last.returned

C29_Witness ==
    /\ last.op = "complete"
    /\ last.short
    /\ \E c \in Completers :
          /\ last.returned[c] = ReturnsDict(FilesBA)
          /\ last.value = [k \in {"files"} |-> <<StrA, StrB>>]

\* C28: the list split returns for the text of a request has at least one
\* element, and no element but the last is the empty string.
C28_SplitNeverEmpty ==
    request.active =>
        LET fragments == request.event.split
        IN  /\ Len(fragments) >= 1
            /\ \A i \in 1..(Len(fragments) - 1) : fragments[i] # <<>>
            /\ request.event.text = fragments[Len(fragments)]

C28_Witness ==
    /\ request.active
    /\ request.event.block = <<32, 32>>
    /\ request.event.split = << <<>> >>

\* C30: after a register call that raised TypeError the registry is the
\* list it was before the call.
C30_FailedRegisterKeepsRegistry ==
    (last.op = "register" /\ last.raised = "TypeError") =>
        registry = last.registry

====
